---- MODULE Spec2Model ----
(***************************************************************************)
(* State-machine model of fileshaare.py (ULTRA FileStore bot): the files / *)
(* groups / links / stats tables, the storage channel, the per-user        *)
(* user_data, the handler tasks spawned with asyncio.create_task (one step *)
(* per awaited database statement or Telegram call) and the background     *)
(* expiry_worker.                                                          *)
(*                                                                         *)
(* Not modelled: the users table, the last_active / created_at / file_name *)
(* columns and the keyboards, none of which any handler reads back to take *)
(* a decision.                                                             *)
(***************************************************************************)
EXTENDS Integers, FiniteSets, Sequences, TLC

\* ---------------------------------------------------------------- bounds
MaxFiles == 2        \* forwards to the storage channel (and so file rows)
MaxLinks == 2        \* rows of the links table
MaxTime == 2         \* the clock runs 0..MaxTime
MaxTTL == 1          \* expires_seconds offered: 0 (never) .. MaxTTL
MaxLimit == 1        \* max_downloads passed to create_share_link: None, 1..MaxLimit
MaxStatDownloads == 1 \* cap on the download callbacks counted per user

\* ------------------------------------------------------- fixed identities
NULL == -1                       \* SQL NULL / Python None
Users == {1, 2}
ADMIN_IDS == {2}
Groups == {1, 2}
GroupOwner == [g \in Groups |-> g]   \* groups.owner_id, set when the group is created
Codes == {"c1", "c2"}            \* values gen_code() may return
Tasks == {1, 2}                  \* handler tasks alive at the same time
Sizes == {5}                     \* file_size of an uploaded document
Kinds == {"document", "audio"}   \* a supported and an unsupported message kind
Serials == 1..MaxFiles           \* serials a callback may name

VARIABLES
    files,      \* table files: set of rows
    groups,     \* table groups: gid -> [owner_id, total_files, total_size]
    links,      \* table links: set of rows
    stats,      \* table stats: user -> [present, uploads, downloads]
    store,      \* message ids present in the storage channel
    nextFileId, \* files.id SERIAL
    nextLinkId, \* links.id SERIAL
    nextSid,    \* next message id of the storage channel
    user_data,  \* ctx.user_data: user -> [upload_group_id, is_bulk_upload]
    tasks,      \* handler tasks: task -> its position and locals
    reaper,     \* expiry_worker: [pc, rows, todo]
    now,        \* NOW() / datetime.utcnow()
    reply,      \* the last message a handler sent: [text, locator]
    everSerial  \* history: gid -> the serials ever inserted for it

vars == <<files, groups, links, stats, store, nextFileId, nextLinkId, nextSid,
          user_data, tasks, reaper, now, reply, everSerial>>

Idle == [pc |-> "idle"]

Msg(text) == [text |-> text, locator |-> 0]

\* ------------------------------------------------------------- utilities
is_admin(uid) == uid \in ADMIN_IDS

MaxOf(S) == IF S = {} THEN 0 ELSE CHOOSE m \in S : \A x \in S : x <= m

\* mutant: the WHERE group_id clause is lost
NextSerial_AllGroups(gid) == MaxOf({f.serial : f \in files}) + 1

\* SELECT COALESCE(MAX(serial),0)+1 FROM files WHERE group_id = gid
NextSerial(gid) == MaxOf({f.serial : f \in {r \in files : r.group_id = gid}}) + 1

\* SELECT ... FROM files WHERE group_id = gid AND serial = s
FileRows(gid, s) == {f \in files : f.group_id = gid /\ f.serial = s}

\* INSERT INTO stats ... ON CONFLICT (user_id) DO UPDATE SET last_active = NOW()
ensure_user(u) == [stats EXCEPT ![u].present = TRUE]

\* mutant: ON CONFLICT stores the inserted value instead of adding one
StatsUpload_Overwrite(u) ==
    [stats EXCEPT ![u] = [present |-> TRUE, uploads |-> 1,
                          downloads |-> @.downloads]]

\* INSERT INTO stats (user_id,uploads) VALUES (u,1) ON CONFLICT DO UPDATE uploads + 1
StatsUpload(u) ==
    [stats EXCEPT ![u] = [present |-> TRUE, uploads |-> @.uploads + 1,
                          downloads |-> @.downloads]]

\* INSERT INTO stats (user_id,downloads) VALUES (u,1) ON CONFLICT DO UPDATE downloads + 1
StatsDownload(u) ==
    [stats EXCEPT ![u] = [present |-> TRUE, uploads |-> @.uploads,
                          downloads |-> @.downloads + 1]]

\* finally: if not ctx.user_data.get('is_bulk_upload'): pop('upload_group_id')
UploadFinally(u) ==
    IF user_data[u].is_bulk_upload THEN user_data
    ELSE [user_data EXCEPT ![u].upload_group_id = 0]

Init ==
    /\ files = {}
    /\ groups = [g \in Groups |-> [owner_id |-> GroupOwner[g], total_files |-> 0,
                                   total_size |-> 0]]
    /\ links = {}
    /\ stats = [u \in Users |-> [present |-> FALSE, uploads |-> 0, downloads |-> 0]]
    /\ store = {}
    /\ nextFileId = 1
    /\ nextLinkId = 1
    /\ nextSid = 1
    /\ user_data = [u \in Users |-> [upload_group_id |-> 0, is_bulk_upload |-> FALSE]]
    /\ tasks = [t \in Tasks |-> Idle]
    /\ reaper = [pc |-> "fetch", rows |-> {}, todo |-> {}]
    /\ now = 0
    /\ reply = Msg("")
    /\ everSerial = [g \in Groups |-> {}]

\* ------------------------------------------------------ upload selection
\* choose_group_ui: the Upload / Bulk Upload buttons
choose_group_ui(u, bulk) ==
    /\ stats' = ensure_user(u)
    /\ user_data' = [user_data EXCEPT ![u].is_bulk_upload = bulk]
    /\ reply' = Msg("Select a group:")
    /\ UNCHANGED <<files, groups, links, store, nextFileId, nextLinkId, nextSid,
                   tasks, reaper, now, everSerial>>

\* callback "pick:<gid>"
CallbackPick(u, gid) ==
    /\ user_data' = [user_data EXCEPT ![u].upload_group_id = gid]
    /\ reply' = Msg("Selected")
    /\ UNCHANGED <<files, groups, links, stats, store, nextFileId, nextLinkId,
                   nextSid, tasks, reaper, now, everSerial>>

\* --------------------------------------------------------- handle_upload
\* up to the "Uploading ..." status message: ensure_user, the selected group,
\* the kind of the message
HandleUpload(t, u, kind, size) ==
    /\ tasks[t] = Idle
    /\ nextSid + Cardinality({o \in Tasks : tasks[o].pc = "up_forward"}) <= MaxFiles
    /\ stats' = ensure_user(u)
    /\ LET gid == user_data[u].upload_group_id IN
        IF gid = 0
        THEN /\ reply' = Msg("Select a group first")
             /\ tasks' = tasks
        ELSE IF kind # "document"
        THEN /\ reply' = Msg("Unsupported file type.")
             /\ tasks' = tasks
        ELSE /\ reply' = Msg("Uploading")
             /\ tasks' = [tasks EXCEPT ![t] =
                    [pc |-> "up_forward", user |-> u, gid |-> gid, size |-> size,
                     sid |-> 0, serial |-> 0]]
    /\ UNCHANGED <<files, groups, links, store, nextFileId, nextLinkId, nextSid,
                   user_data, reaper, now, everSerial>>

\* mutant: the forward is not awaited, the handler goes on without a locator
UploadForward_NotAwaited(t) ==
    /\ tasks[t].pc = "up_forward"
    /\ tasks' = [tasks EXCEPT ![t].pc = "up_serial"]
    /\ UNCHANGED <<files, groups, links, stats, store, nextFileId, nextLinkId,
                   nextSid, user_data, reaper, now, reply, everSerial>>

\* forwarded = await update.message.forward(chat_id=storage_id)
UploadForward(t) ==
    /\ tasks[t].pc = "up_forward"
    /\ store' = store \cup {nextSid}
    /\ nextSid' = nextSid + 1
    /\ tasks' = [tasks EXCEPT ![t].pc = "up_serial", ![t].sid = nextSid]
    /\ UNCHANGED <<files, groups, links, stats, nextFileId, nextLinkId, user_data,
                   reaper, now, reply, everSerial>>

\* serial = await conn.fetchval("SELECT COALESCE(MAX(serial),0)+1 ...")
UploadSerial(t) ==
    /\ tasks[t].pc = "up_serial"
    /\ tasks' = [tasks EXCEPT ![t].pc = "up_insert",
                              ![t].serial = NextSerial(tasks[t].gid)]
    /\ UNCHANGED <<files, groups, links, stats, store, nextFileId, nextLinkId,
                   nextSid, user_data, reaper, now, reply, everSerial>>

\* INSERT INTO files (...)
UploadInsert(t) ==
    /\ tasks[t].pc = "up_insert"
    /\ files' = files \cup {[id |-> nextFileId, group_id |-> tasks[t].gid,
                             serial |-> tasks[t].serial, file_size |-> tasks[t].size,
                             storage_message_id |-> tasks[t].sid,
                             uploader_id |-> tasks[t].user]}
    /\ nextFileId' = nextFileId + 1
    /\ everSerial' = [everSerial EXCEPT ![tasks[t].gid] = @ \cup {tasks[t].serial}]
    /\ tasks' = [tasks EXCEPT ![t].pc = "up_group"]
    /\ UNCHANGED <<groups, links, stats, store, nextLinkId, nextSid, user_data,
                   reaper, now, reply>>

\* UPDATE groups SET total_files = total_files + 1, total_size = total_size + $1
UploadGroup(t) ==
    /\ tasks[t].pc = "up_group"
    /\ groups' = [groups EXCEPT ![tasks[t].gid].total_files = @ + 1,
                                ![tasks[t].gid].total_size = @ + tasks[t].size]
    /\ tasks' = [tasks EXCEPT ![t].pc = "up_stats"]
    /\ UNCHANGED <<files, links, stats, store, nextFileId, nextLinkId, nextSid,
                   user_data, reaper, now, reply, everSerial>>

\* the stats upsert, the "Saved" message, and the finally clause
UploadStats(t) ==
    /\ tasks[t].pc = "up_stats"
    /\ stats' = StatsUpload(tasks[t].user)
    /\ reply' = Msg("Saved")
    /\ user_data' = UploadFinally(tasks[t].user)
    /\ tasks' = [tasks EXCEPT ![t] = Idle]
    /\ UNCHANGED <<files, groups, links, store, nextFileId, nextLinkId, nextSid,
                   reaper, now, everSerial>>

\* except FloodWaitError (raised by the forward), then the finally clause
UploadRateLimited(t) ==
    /\ tasks[t].pc = "up_forward"
    /\ reply' = Msg("Rate limited. Try later.")
    /\ user_data' = UploadFinally(tasks[t].user)
    /\ tasks' = [tasks EXCEPT ![t] = Idle]
    /\ UNCHANGED <<files, groups, links, stats, store, nextFileId, nextLinkId,
                   nextSid, reaper, now, everSerial>>

\* except Exception: the forward or any of the four statements raised; nothing
\* already executed is undone (no transaction is open); then the finally clause
UploadFail(t) ==
    /\ tasks[t].pc \in {"up_forward", "up_serial", "up_insert", "up_group", "up_stats"}
    /\ reply' = Msg("Upload failed.")
    /\ user_data' = UploadFinally(tasks[t].user)
    /\ tasks' = [tasks EXCEPT ![t] = Idle]
    /\ UNCHANGED <<files, groups, links, stats, store, nextFileId, nextLinkId,
                   nextSid, reaper, now, everSerial>>

\* ------------------------------------------------- callback "delete:g:s"
\* mutant: the "not" before is_admin is lost
DeletePermitted_NotLost(u, owner) == ~(u # owner /\ is_admin(u))

\* the permission test of the delete branch
DeletePermitted(u, owner) == ~(u # owner /\ ~is_admin(u))

\* fetchrow of the file, fetchval of the owner, the permission test
CallbackDelete(t, u, gid, s) ==
    /\ tasks[t] = Idle
    /\ IF FileRows(gid, s) = {}
       THEN /\ reply' = Msg("File not found.")
            /\ tasks' = tasks
       ELSE \E row \in FileRows(gid, s) :
            IF ~DeletePermitted(u, groups[gid].owner_id)
            THEN /\ reply' = Msg("Not permitted.")
                 /\ tasks' = tasks
            ELSE /\ reply' = reply
                 /\ tasks' = [tasks EXCEPT ![t] =
                        [pc |-> "del_row", user |-> u, gid |-> gid, id |-> row.id,
                         sid |-> row.storage_message_id]]
    /\ UNCHANGED <<files, groups, links, stats, store, nextFileId, nextLinkId,
                   nextSid, user_data, reaper, now, everSerial>>

\* DELETE FROM files WHERE id=$1
DeleteRow(t) ==
    /\ tasks[t].pc = "del_row"
    /\ files' = {f \in files : f.id # tasks[t].id}
    /\ tasks' = [tasks EXCEPT ![t].pc = "del_group"]
    /\ UNCHANGED <<groups, links, stats, store, nextFileId, nextLinkId, nextSid,
                   user_data, reaper, now, reply, everSerial>>

\* UPDATE groups SET total_files = total_files - 1 WHERE id=$1
DeleteGroup(t) ==
    /\ tasks[t].pc = "del_group"
    /\ groups' = [groups EXCEPT ![tasks[t].gid].total_files = @ - 1]
    /\ tasks' = [tasks EXCEPT ![t].pc = "del_msg"]
    /\ UNCHANGED <<files, links, stats, store, nextFileId, nextLinkId, nextSid,
                   user_data, reaper, now, reply, everSerial>>

\* try: await ctx.bot.delete_message(...) succeeded; "Deleted."
DeleteMessage(t) ==
    /\ tasks[t].pc = "del_msg"
    /\ store' = store \ {tasks[t].sid}
    /\ reply' = Msg("Deleted.")
    /\ tasks' = [tasks EXCEPT ![t] = Idle]
    /\ UNCHANGED <<files, groups, links, stats, nextFileId, nextLinkId, nextSid,
                   user_data, reaper, now, everSerial>>

\* mutant: no try around delete_message, its exception reaches the except
\* clause of callback_handler
DeleteMessageFail_Propagates(t) ==
    /\ tasks[t].pc = "del_msg"
    /\ reply' = Msg("Error processing action.")
    /\ tasks' = [tasks EXCEPT ![t] = Idle]
    /\ UNCHANGED <<files, groups, links, stats, store, nextFileId, nextLinkId,
                   nextSid, user_data, reaper, now, everSerial>>

\* except: pass (delete_message raised); "Deleted."
DeleteMessageFail(t) ==
    /\ tasks[t].pc = "del_msg"
    /\ reply' = Msg("Deleted.")
    /\ tasks' = [tasks EXCEPT ![t] = Idle]
    /\ UNCHANGED <<files, groups, links, stats, store, nextFileId, nextLinkId,
                   nextSid, user_data, reaper, now, everSerial>>

\* except Exception of callback_handler: the DELETE or the UPDATE raised
DeleteFail(t) ==
    /\ tasks[t].pc \in {"del_row", "del_group"}
    /\ reply' = Msg("Error processing action.")
    /\ tasks' = [tasks EXCEPT ![t] = Idle]
    /\ UNCHANGED <<files, groups, links, stats, store, nextFileId, nextLinkId,
                   nextSid, user_data, reaper, now, everSerial>>

\* ------------------------------------------------------ create_share_link
\* expires_at = utcnow() + expires_seconds, if expires_seconds is truthy
ExpiresAt(expires_seconds) ==
    IF expires_seconds # NULL /\ expires_seconds # 0 THEN now + expires_seconds
    ELSE NULL

\* gen_code(), expires_at, and the SELECT of the file id
create_share_link(t, gid, s, owner, expires_seconds, max_downloads) ==
    /\ tasks[t] = Idle
    /\ nextLinkId <= MaxLinks
    /\ \E code \in Codes :
        IF FileRows(gid, s) = {}
        THEN /\ reply' = Msg("Could not create link.")
             /\ tasks' = tasks
        ELSE \E row \in FileRows(gid, s) :
             /\ reply' = reply
             /\ tasks' = [tasks EXCEPT ![t] =
                    [pc |-> "sh_insert", code |-> code, file_id |-> row.id,
                     gid |-> gid, owner |-> owner,
                     expires_at |-> ExpiresAt(expires_seconds),
                     max_downloads |-> max_downloads]]
    /\ UNCHANGED <<files, groups, links, stats, store, nextFileId, nextLinkId,
                   nextSid, user_data, reaper, now, everSerial>>

\* callback "sharec:g:s:seconds"
CallbackSharec(t, u, gid, s, seconds) ==
    create_share_link(t, gid, s, u, IF seconds > 0 THEN seconds ELSE NULL, NULL)

\* create_share_link called with a max_downloads (the parameter of its signature
\* that the sharec callback leaves at None)
CreateShareLinkLimited(t, u, gid, s, seconds, limit) ==
    create_share_link(t, gid, s, u, seconds, limit)

\* INSERT INTO links (...): code is UNIQUE, so a taken code raises, which
\* callback_handler reports as an error
ShareInsert(t) ==
    /\ tasks[t].pc = "sh_insert"
    /\ IF \E l \in links : l.code = tasks[t].code
       THEN /\ reply' = Msg("Error processing action.")
            /\ UNCHANGED <<links, nextLinkId>>
       ELSE /\ links' = links \cup {[id |-> nextLinkId, code |-> tasks[t].code,
                                     file_id |-> tasks[t].file_id,
                                     group_id |-> tasks[t].gid,
                                     owner_id |-> tasks[t].owner,
                                     expires_at |-> tasks[t].expires_at,
                                     max_downloads |-> tasks[t].max_downloads,
                                     downloads |-> 0, active |-> TRUE]}
            /\ nextLinkId' = nextLinkId + 1
            /\ reply' = Msg("Link")
    /\ tasks' = [tasks EXCEPT ![t] = Idle]
    /\ UNCHANGED <<files, groups, stats, store, nextFileId, nextSid, user_data,
                   reaper, now, everSerial>>

\* the INSERT raised for another reason (storage unavailable)
ShareFail(t) ==
    /\ tasks[t].pc = "sh_insert"
    /\ reply' = Msg("Error processing action.")
    /\ tasks' = [tasks EXCEPT ![t] = Idle]
    /\ UNCHANGED <<files, groups, links, stats, store, nextFileId, nextLinkId,
                   nextSid, user_data, reaper, now, everSerial>>

\* ----------------------------------------------- callback "download:g:s"
CallbackDownload(t, u, gid, s) ==
    /\ tasks[t] = Idle
    /\ stats[u].downloads < MaxStatDownloads
    /\ IF FileRows(gid, s) = {}
       THEN /\ reply' = Msg("File not found.")
            /\ tasks' = tasks
       ELSE \E row \in FileRows(gid, s) :
            /\ reply' = reply
            /\ tasks' = [tasks EXCEPT ![t] =
                   [pc |-> "dl_copy", user |-> u, sid |-> row.storage_message_id]]
    /\ UNCHANGED <<files, groups, links, stats, store, nextFileId, nextLinkId,
                   nextSid, user_data, reaper, now, everSerial>>

\* ctx.bot.copy_message(...) of a message the storage channel still holds
DownloadCopy(t) ==
    /\ tasks[t].pc = "dl_copy"
    /\ tasks[t].sid \in store
    /\ reply' = [text |-> "Delivered", locator |-> tasks[t].sid]
    /\ tasks' = [tasks EXCEPT ![t].pc = "dl_stats"]
    /\ UNCHANGED <<files, groups, links, stats, store, nextFileId, nextLinkId,
                   nextSid, user_data, reaper, now, everSerial>>

\* the stats upsert after the copy
DownloadStats(t) ==
    /\ tasks[t].pc = "dl_stats"
    /\ stats' = StatsDownload(tasks[t].user)
    /\ tasks' = [tasks EXCEPT ![t] = Idle]
    /\ UNCHANGED <<files, groups, links, store, nextFileId, nextLinkId, nextSid,
                   user_data, reaper, now, reply, everSerial>>

\* except Exception: the copy or the upsert raised
DownloadFail(t) ==
    /\ tasks[t].pc \in {"dl_copy", "dl_stats"}
    /\ reply' = Msg("Could not send file.")
    /\ tasks' = [tasks EXCEPT ![t] = Idle]
    /\ UNCHANGED <<files, groups, links, stats, store, nextFileId, nextLinkId,
                   nextSid, user_data, reaper, now, everSerial>>

\* ------------------------------------------------------------- cmd_start
\* "/start <code>", the deep link of a share URL: ensure_user and the greeting;
\* the payload is not read
cmd_start(u, code) ==
    /\ stats' = ensure_user(u)
    /\ reply' = Msg("Welcome")
    /\ UNCHANGED <<files, groups, links, store, nextFileId, nextLinkId, nextSid,
                   user_data, tasks, reaper, now, everSerial>>

\* --------------------------------------------------------- expiry_worker
\* mutant: the comparison with NOW() is lost
ExpiredRows_NoClock == {l \in links : l.active /\ l.expires_at # NULL}

\* WHERE active = TRUE AND expires_at IS NOT NULL AND expires_at <= NOW()
ExpiredRows ==
    {l \in links : l.active /\ l.expires_at # NULL /\ l.expires_at <= now}

\* rows = await conn.fetch(...)
ReaperFetch ==
    /\ reaper.pc = "fetch"
    /\ reaper' = [pc |-> "update", rows |-> {l.id : l \in ExpiredRows},
                  todo |-> {l.id : l \in ExpiredRows}]
    /\ UNCHANGED <<files, groups, links, stats, store, nextFileId, nextLinkId,
                   nextSid, user_data, tasks, now, reply, everSerial>>

\* mutant: the worker deletes the expired row instead of deactivating it
ReaperUpdate_Deletes ==
    /\ reaper.pc = "update"
    /\ \E id \in reaper.todo :
        /\ links' = {l \in links : l.id # id}
        /\ reaper' = [reaper EXCEPT !.todo = @ \ {id}]
    /\ UNCHANGED <<files, groups, stats, store, nextFileId, nextLinkId, nextSid,
                   user_data, tasks, now, reply, everSerial>>

\* UPDATE links SET active = FALSE WHERE id = $1, for the next row of the loop
ReaperUpdate ==
    /\ reaper.pc = "update"
    /\ \E id \in reaper.todo :
        /\ links' = {IF l.id = id THEN [l EXCEPT !.active = FALSE] ELSE l : l \in links}
        /\ reaper' = [reaper EXCEPT !.todo = @ \ {id}]
    /\ UNCHANGED <<files, groups, stats, store, nextFileId, nextLinkId, nextSid,
                   user_data, tasks, now, reply, everSerial>>

\* the loop is over: await asyncio.sleep(20)
ReaperSleep ==
    /\ reaper.pc = "update"
    /\ reaper.todo = {}
    /\ reaper' = [pc |-> "sleep", rows |-> {}, todo |-> {}]
    /\ UNCHANGED <<files, groups, links, stats, store, nextFileId, nextLinkId,
                   nextSid, user_data, tasks, now, reply, everSerial>>

\* mutant: the exception leaves the loop and the task ends
ReaperFail_Escapes ==
    /\ reaper.pc \in {"fetch", "update"}
    /\ reaper' = [pc |-> "ended", rows |-> {}, todo |-> {}]
    /\ UNCHANGED <<files, groups, links, stats, store, nextFileId, nextLinkId,
                   nextSid, user_data, tasks, now, reply, everSerial>>

\* except Exception: log, await asyncio.sleep(5)
ReaperFail ==
    /\ reaper.pc \in {"fetch", "update"}
    /\ reaper' = [pc |-> "backoff", rows |-> {}, todo |-> {}]
    /\ UNCHANGED <<files, groups, links, stats, store, nextFileId, nextLinkId,
                   nextSid, user_data, tasks, now, reply, everSerial>>

\* a sleep is over: while True
ReaperWake ==
    /\ reaper.pc \in {"sleep", "backoff"}
    /\ reaper' = [pc |-> "fetch", rows |-> {}, todo |-> {}]
    /\ UNCHANGED <<files, groups, links, stats, store, nextFileId, nextLinkId,
                   nextSid, user_data, tasks, now, reply, everSerial>>

\* ----------------------------------------------------------------- clock
Tick ==
    /\ now < MaxTime
    /\ now' = now + 1
    /\ UNCHANGED <<files, groups, links, stats, store, nextFileId, nextLinkId,
                   nextSid, user_data, tasks, reaper, reply, everSerial>>

\* ------------------------------------------------------------ the system

\* The steps of a running handler task.
UploadStep(t) ==
    \/ UploadForward(t)
    \/ UploadSerial(t)
    \/ UploadInsert(t)
    \/ UploadGroup(t)
    \/ UploadStats(t)

DeleteStep(t) ==
    \/ DeleteRow(t)
    \/ DeleteGroup(t)
    \/ DeleteMessage(t)

\* Updates arriving from the users U about the groups G.
Pick(U, G) == \E u \in U, gid \in G : CallbackPick(u, gid)

StartUpload(t, U) ==
    \E u \in U, kind \in Kinds, size \in Sizes : HandleUpload(t, u, kind, size)

StartDelete(t, U, G) ==
    \E u \in U, gid \in G, s \in Serials : CallbackDelete(t, u, gid, s)

StartShare(t, U, G) ==
    \/ \E u \in U, gid \in G, s \in Serials, seconds \in 0..MaxTTL :
            CallbackSharec(t, u, gid, s, seconds)
    \/ \E u \in U, gid \in G, s \in Serials, seconds \in 0..MaxTTL,
          limit \in 1..MaxLimit :
            CreateShareLinkLimited(t, u, gid, s, seconds, limit)

StartDownload(t, U, G) ==
    \E u \in U, gid \in G, s \in Serials : CallbackDownload(t, u, gid, s)

Reaper ==
    \/ ReaperFetch
    \/ ReaperUpdate
    \/ ReaperSleep
    \/ ReaperFail
    \/ ReaperWake

\* The whole program: every handler, interleaved at every await.
Next ==
    \/ \E u \in Users, bulk \in BOOLEAN : choose_group_ui(u, bulk)
    \/ Pick(Users, Groups)
    \/ \E t \in Tasks :
        \/ StartUpload(t, Users) \/ UploadStep(t)
        \/ UploadRateLimited(t) \/ UploadFail(t)
        \/ StartDelete(t, Users, Groups) \/ DeleteStep(t)
        \/ DeleteMessageFail(t) \/ DeleteFail(t)
        \/ StartShare(t, Users, Groups) \/ ShareInsert(t) \/ ShareFail(t)
        \/ StartDownload(t, Users, Groups) \/ DownloadCopy(t)
        \/ DownloadStats(t) \/ DownloadFail(t)
    \/ \E u \in Users, code \in Codes : cmd_start(u, code)
    \/ Reaper
    \/ Tick

Spec == Init /\ [][Next]_vars

(***************************************************************************)
(* Next is too large to enumerate, so each property is checked on a part   *)
(* of it: a specification whose next-state relation is a sub-relation of   *)
(* Next (some handlers, some callers), so that each of its behaviours is a *)
(* behaviour of Spec.                                                      *)
(***************************************************************************)
SeqTask == CHOOSE t \in Tasks : \A o \in Tasks : t <= o
Owner1 == {1}     \* the owner of group 1, not an administrator
Group1 == {1}

\* One handler at a time and no failure: a sequential series of successful
\* uploads and deletes, by every user, in every group.
NextSeq ==
    \/ Pick(Users, Groups)
    \/ StartUpload(SeqTask, Users) \/ UploadStep(SeqTask)
    \/ StartDelete(SeqTask, Users, Groups) \/ DeleteStep(SeqTask)

SpecSeq == Init /\ [][NextSeq]_vars

\* Uploads of every user racing in every interleaving into groups that start
\* empty; nothing is deleted and nothing fails.
NextUploads ==
    \/ Pick(Users, Groups)
    \/ \E t \in Tasks : StartUpload(t, Users) \/ UploadStep(t)

SpecUploads == Init /\ [][NextUploads]_vars

\* Uploads and deletes of every user racing in every interleaving; no failure.
NextRace ==
    \/ Pick(Users, Groups)
    \/ \E t \in Tasks :
        \/ StartUpload(t, Users) \/ UploadStep(t)
        \/ StartDelete(t, Users, Groups) \/ DeleteStep(t)

SpecRace == Init /\ [][NextRace]_vars

\* Uploads and deletes of an administrator, who may delete in every group,
\* racing in every interleaving over both groups; no failure.
NextIsolation ==
    \/ Pick(ADMIN_IDS, Groups)
    \/ \E t \in Tasks :
        \/ StartUpload(t, ADMIN_IDS) \/ UploadStep(t)
        \/ StartDelete(t, ADMIN_IDS, Groups) \/ DeleteStep(t)

SpecIsolation == Init /\ [][NextIsolation]_vars

\* One handler at a time; a delete may fail at each of its steps.
NextDelete ==
    \/ Pick(Users, Groups)
    \/ StartUpload(SeqTask, Users) \/ UploadStep(SeqTask)
    \/ StartDelete(SeqTask, Users, Groups) \/ DeleteStep(SeqTask)
    \/ DeleteMessageFail(SeqTask) \/ DeleteFail(SeqTask)

SpecDelete == Init /\ [][NextDelete]_vars

\* One handler at a time; the database never fails, the storage channel may
\* refuse to delete a message.
NextContent ==
    \/ Pick(Users, Groups)
    \/ StartUpload(SeqTask, Users) \/ UploadStep(SeqTask)
    \/ StartDelete(SeqTask, Users, Groups) \/ DeleteStep(SeqTask)
    \/ DeleteMessageFail(SeqTask)

SpecContent == Init /\ [][NextContent]_vars

\* One handler at a time, each step of which may fail.
NextFail ==
    \/ Pick(Users, Groups)
    \/ StartUpload(SeqTask, Users) \/ UploadStep(SeqTask)
    \/ UploadRateLimited(SeqTask) \/ UploadFail(SeqTask)
    \/ StartDelete(SeqTask, Users, Groups) \/ DeleteStep(SeqTask)
    \/ DeleteMessageFail(SeqTask) \/ DeleteFail(SeqTask)

SpecFail == Init /\ [][NextFail]_vars

\* Uploads of every user racing in every interleaving, each step of which may
\* fail; nothing is deleted.
NextTransfer ==
    \/ Pick(Users, Groups)
    \/ \E t \in Tasks :
        \/ StartUpload(t, Users) \/ UploadStep(t)
        \/ UploadRateLimited(t) \/ UploadFail(t)

SpecTransfer == Init /\ [][NextTransfer]_vars

\* Every handler that writes the stats table: uploads of its owner to group 1
\* by one handler task and downloads of every user by the other, racing and
\* failing at every step, beside /start and the upload buttons.
DlTask == CHOOSE t \in Tasks : t # SeqTask

NextStats ==
    \/ Pick(Owner1, Group1)
    \/ StartUpload(SeqTask, Owner1) \/ UploadStep(SeqTask) \/ UploadFail(SeqTask)
    \/ StartDownload(DlTask, Users, Group1)
    \/ DownloadCopy(DlTask) \/ DownloadStats(DlTask) \/ DownloadFail(DlTask)
    \/ \E u \in Users, code \in Codes : cmd_start(u, code)
    \/ \E u \in Owner1, bulk \in BOOLEAN : choose_group_ui(u, bulk)

SpecStats == Init /\ [][NextStats]_vars

\* The upload flow of the owner of group 1: the Upload and Bulk Upload
\* buttons, the pick of the group, and upload messages of every kind handled
\* by racing handlers, each step of which may fail.
NextSelect ==
    \/ \E u \in Owner1, bulk \in BOOLEAN : choose_group_ui(u, bulk)
    \/ Pick(Owner1, Group1)
    \/ \E t \in Tasks :
        \/ StartUpload(t, Owner1) \/ UploadStep(t)
        \/ UploadRateLimited(t) \/ UploadFail(t)

SpecSelect == Init /\ [][NextSelect]_vars

\* The link engine: the owner of group 1 stocks it, links to its items are
\* issued, /start is received with their codes, and the clock runs.
NextLinks ==
    \/ Pick(Owner1, Group1)
    \/ StartUpload(SeqTask, Owner1) \/ UploadStep(SeqTask)
    \/ StartDelete(SeqTask, Owner1, Group1) \/ DeleteStep(SeqTask)
    \/ StartShare(SeqTask, Owner1, Group1) \/ ShareInsert(SeqTask) \/ ShareFail(SeqTask)
    \/ \E u \in Users, code \in Codes : cmd_start(u, code)
    \/ Tick

SpecLinks == Init /\ [][NextLinks]_vars

\* the owner of group 1 uploads while the group is empty
StockOnce == files = {} /\ StartUpload(SeqTask, Owner1)

\* The expiry worker beside the clock and the issue of links with every expiry
\* to the one item that the owner of group 1 uploads.
NextReaper ==
    \/ Pick(Owner1, Group1)
    \/ StockOnce
    \/ UploadStep(SeqTask)
    \/ \E seconds \in 0..MaxTTL : CallbackSharec(SeqTask, 1, 1, 1, seconds)
    \/ ShareInsert(SeqTask)
    \/ Reaper
    \/ Tick

SpecReaper == Init /\ [][NextReaper]_vars

\* Everything that runs beside a stored Link: the expiry worker, the clock,
\* the issue of further links, /start with a code, and the delete of the item.
NextLinkLife ==
    \/ NextReaper
    \/ \E u \in Owner1, code \in Codes : cmd_start(u, code)
    \/ StartDelete(SeqTask, Owner1, Group1) \/ DeleteStep(SeqTask)

SpecLinkLife == Init /\ [][NextLinkLife]_vars

\* The same under the fairness the event loop and an eventually available
\* database give the worker: a sleep ends, and a statement that is retried
\* again and again eventually succeeds.
SpecReaperLive ==
    /\ SpecReaper
    /\ WF_vars(ReaperWake)
    /\ WF_vars(ReaperSleep)
    /\ SF_vars(ReaperFetch)
    /\ SF_vars(ReaperUpdate)

\* ---------------------------------------------------------------- claims
FilesOf(g) == {f \in files : f.group_id = g}

RECURSIVE SumSizes(_)
SumSizes(R) ==
    IF R = {} THEN 0
    ELSE LET f == CHOOSE x \in R : TRUE IN f.file_size + SumSizes(R \ {f})

Expired(l) == l.expires_at # NULL /\ l.expires_at <= now

\* C1: the items of a collection that started empty and only received
\* (possibly concurrent) uploads carry the sequence numbers 1..N exactly: no
\* duplicate and no gap.
C1_SerialsExactly1toN ==
    \A g \in Groups :
        {f.serial : f \in FilesOf(g)} = 1..Cardinality(FilesOf(g))

\* C3: every insert receives a sequence number strictly greater than every
\* sequence number handed out before in its collection, also after deletes.
C3_SerialNeverReused ==
    [][\A t \in Tasks :
        UploadInsert(t) => tasks[t].serial > MaxOf(everSerial[tasks[t].gid])]_vars

\* C4: after a sequential series of successful uploads and deletes, a group's
\* total_files is the number of its file rows and its total_size the sum of
\* their file_size.
C4_AggregatesMatchRows ==
    tasks[SeqTask] = Idle =>
        \A g \in Groups :
            /\ groups[g].total_files = Cardinality(FilesOf(g))
            /\ groups[g].total_size = SumSizes(FilesOf(g))

\* C2: /start with the code of a live Link limited to k downloads succeeds and
\* counts one download while downloads < k, answers Exhausted afterwards, and
\* downloads never exceeds k.
C2_LimitEnforced ==
    /\ [][\A u \in Users, c \in Codes :
            cmd_start(u, c) =>
                \A l \in links :
                    (l.code = c /\ l.active /\ l.max_downloads # NULL /\ ~Expired(l)) =>
                        IF l.downloads < l.max_downloads
                        THEN /\ reply'.text = "Delivered"
                             /\ [l EXCEPT !.downloads = @ + 1] \in links'
                        ELSE /\ reply'.text = "Exhausted"
                             /\ links' = links]_vars
    /\ [](\A l \in links : l.max_downloads # NULL => l.downloads <= l.max_downloads)

\* C5: a delete requested by a user who is neither the owner of the group nor
\* an administrator is answered "Not permitted." and ends there: the file row,
\* the group's aggregates and the stored message are left as they were.
C5_DeleteDenied ==
    [][\A t \in Tasks, u \in Users, g \in Groups, s \in Serials :
        (u # GroupOwner[g] /\ u \notin ADMIN_IDS /\ FileRows(g, s) # {}
            /\ CallbackDelete(t, u, g, s)) =>
                /\ reply'.text = "Not permitted."
                /\ tasks'[t] = Idle
                /\ UNCHANGED <<files, groups, store>>]_vars

\* a denied delete has been answered while the file it named exists
C5_Witness ==
    /\ reply.text = "Not permitted."
    /\ \E f \in files, u \in Users :
        /\ u # GroupOwner[f.group_id] /\ u \notin ADMIN_IDS
        /\ groups[f.group_id].total_files > 0

\* C6: an upload that is given up after its sequence number was read leaves
\* no file row behind unless the group's aggregates were updated for it.
C6_UploadAllOrNothing ==
    [][\A t \in Tasks :
        (UploadFail(t) /\ \E f \in files' : f.storage_message_id = tasks[t].sid) =>
            tasks[t].pc = "up_stats"]_vars

\* C7: /start with the code of a Link that has no expiry and no limit, while
\* its item exists, delivers the storage message the upload registered.
C7_RoundTrip ==
    [][\A u \in Users, c \in Codes :
        cmd_start(u, c) =>
            \A l \in links, f \in files :
                (l.code = c /\ l.active /\ l.expires_at = NULL
                    /\ l.max_downloads = NULL /\ f.id = l.file_id) =>
                        reply' = [text |-> "Delivered",
                                  locator |-> f.storage_message_id]]_vars

\* C8: /start with the code of an active Link whose expires_at is in the past
\* answers Expired and leaves the Link with active = FALSE, without any step
\* of the expiry worker.
C8_LazyExpiry ==
    [][\A u \in Users, c \in Codes :
        cmd_start(u, c) =>
            \A l \in links :
                (l.code = c /\ l.active /\ l.expires_at # NULL /\ l.expires_at < now) =>
                    /\ reply'.text = "Expired"
                    /\ [l EXCEPT !.active = FALSE] \in links']_vars

\* C9: the expiry worker deactivates exactly the Links it selected, which are
\* the active ones with a non-null expires_at <= now: whenever a Link goes
\* inactive it had expired and nothing else of it changed, a cycle that ends
\* has deactivated every Link that was selected, and no step of the worker
\* changes a file, a group, a stats row or the storage channel.
C9_ReaperFrame ==
    [][/\ \A l \in links :
            \/ l \in links'
            \/ /\ l.active /\ l.expires_at # NULL /\ l.expires_at <= now
               /\ [l EXCEPT !.active = FALSE] \in links'
               /\ Cardinality(links') = Cardinality(links)
       /\ ReaperFetch =>
            reaper'.rows = {l.id : l \in {x \in links :
                x.active /\ x.expires_at # NULL /\ x.expires_at <= now}}
       /\ ReaperSleep =>
            \A l \in links : l.id \in reaper.rows => ~l.active
       /\ Reaper => UNCHANGED <<files, groups, stats, store, user_data>>]_vars

\* the worker has deactivated an expired Link and left an unexpired one active
C9_Witness ==
    \E l1 \in links, l2 \in links :
        /\ ~l1.active
        /\ l2.active /\ (l2.expires_at = NULL \/ l2.expires_at > now)

\* C10: the expiry worker never leaves its loop, and under fairness every
\* Link whose non-null expires_at has passed eventually has active = FALSE.
C10_ReaperLive ==
    /\ [](reaper.pc \in {"fetch", "update", "sleep", "backoff"})
    /\ \A id \in 1..MaxLinks :
        (\E l \in links : l.id = id /\ l.active /\ Expired(l))
            ~> (\E l \in links : l.id = id /\ ~l.active)

\* the worker failed after deactivating one of two expired Links
C10_Witness ==
    /\ reaper.pc = "backoff"
    /\ \E l1 \in links, l2 \in links :
        /\ ~l1.active
        /\ l2.active /\ Expired(l2)

\* C11: an upload whose forward to the storage chat fails inserts no row into
\* files and leaves every group's totals and every user's counters as they
\* were, and ends; a row is inserted into files only by a handler whose forward
\* has returned, and it records the message id that forward returned.
C11_TransferBeforeRow ==
    /\ [](\A f \in files : f.storage_message_id \in 1..(nextSid - 1))
    /\ [][\A t \in Tasks :
            /\ (tasks[t].pc = "up_forward" /\ (UploadRateLimited(t) \/ UploadFail(t))) =>
                    /\ UNCHANGED <<files, groups, stats, nextFileId>>
                    /\ tasks'[t] = Idle
            /\ UploadInsert(t) =>
                    /\ tasks[t].sid \in 1..(nextSid - 1)
                    /\ \E f \in files' \ files : f.storage_message_id = tasks[t].sid
            /\ (files' # files /\ tasks[t] # tasks'[t]) => tasks[t].pc = "up_insert"]_vars

\* a forward was refused after an earlier upload had stored a row
C11_Witness ==
    /\ reply.text = "Rate limited. Try later."
    /\ \E f \in files : f.storage_message_id \in store
    /\ \A g \in Groups : groups[g].total_files = Cardinality(FilesOf(g))
    /\ \A t \in Tasks : tasks[t] = Idle

\* C12: issuing a link to a (group, serial) with no row in files answers that
\* the link could not be created and inserts no Link; issuing one to a row
\* that exists inserts exactly one new Link, with the generated code,
\* downloads = 0, active = TRUE and expires_at = now + seconds when seconds is
\* positive and NULL otherwise, and answers with the link.
C12_IssueOutcome ==
    [][\A t \in Tasks :
        /\ \A u \in Users, g \in Groups, s \in Serials, seconds \in 0..MaxTTL :
                CallbackSharec(t, u, g, s, seconds) =>
                    IF FileRows(g, s) = {}
                    THEN /\ reply'.text = "Could not create link."
                         /\ links' = links
                         /\ tasks'[t] = Idle
                    ELSE /\ tasks'[t].pc = "sh_insert"
                         /\ tasks'[t].expires_at =
                                IF seconds > 0 THEN now + seconds ELSE NULL
        /\ ShareInsert(t) =>
                /\ reply'.text = "Link"
                /\ \E l \in links' \ links :
                    /\ links' = links \cup {l}
                    /\ l.code = tasks[t].code
                    /\ l.file_id = tasks[t].file_id
                    /\ l.expires_at = tasks[t].expires_at
                    /\ l.downloads = 0
                    /\ l.active]_vars

\* C13: an INSERT of a Link whose code is already taken leaves every stored
\* Link as it was and the request still ends with a new Link under another
\* code; no two Links ever carry the same code.
C13_CollisionRetried ==
    /\ [](\A l1 \in links, l2 \in links : l1.code = l2.code => l1 = l2)
    /\ [][\A t \in Tasks :
            (ShareInsert(t) /\ \E l \in links : l.code = tasks[t].code) =>
                /\ links \subseteq links'
                /\ \E n \in links' \ links :
                    /\ n.file_id = tasks[t].file_id
                    /\ n.code # tasks[t].code]_vars

\* C14: whenever no handler is running, every Link with active = TRUE refers to
\* a row of files that exists, so that once a delete has answered Deleted no
\* active Link refers to the row it removed.
C14_ActiveLinkHasItem ==
    (\A t \in Tasks : tasks[t] = Idle) =>
        \A l \in links : l.active => \E f \in files : f.id = l.file_id

\* C15: /start with the code of a Link whose expires_at is in the past answers
\* Expired, whatever the Link's downloads and max_downloads are, and leaves
\* its downloads as they were.
C15_ExpiredFirst ==
    [][\A u \in Users, c \in Codes :
        cmd_start(u, c) =>
            \A l \in links :
                (l.code = c /\ l.expires_at # NULL /\ l.expires_at < now) =>
                    /\ reply'.text = "Expired"
                    /\ \A n \in links' : n.id = l.id => n.downloads = l.downloads]_vars

C17_StatsMonotone ==
    [][/\ \A u \in Users :
            /\ stats'[u].uploads >= stats[u].uploads
            /\ stats'[u].downloads >= stats[u].downloads
            /\ stats[u].present => stats'[u].present
       /\ \A t \in Tasks :
            IF UploadStats(t)
            THEN /\ stats'[tasks[t].user].uploads = stats[tasks[t].user].uploads + 1
                 /\ stats'[tasks[t].user].present
                 /\ \A o \in Users \ {tasks[t].user} : stats'[o] = stats[o]
            ELSE (tasks[t] # tasks'[t] \/ tasks = tasks') =>
                    \A u \in Users : stats'[u].uploads = stats[u].uploads]_vars

\* a user has uploaded twice and downloaded once
C17_Witness ==
    \E u \in Users :
        /\ stats[u].present
        /\ stats[u].uploads = 2
        /\ stats[u].downloads = 1

\* C18: no step removes a Link from the links table or changes its id or its
\* code, and a Link with active = FALSE is left exactly as it is by every
\* step: it never becomes active again, and a further pass of the expiry
\* worker changes nothing of it.
C18_LinksNeverRevived ==
    [][\A l \in links :
        /\ \E n \in links' : n.id = l.id /\ n.code = l.code /\ (n.active => l.active)
        /\ ~l.active => l \in links']_vars

\* the worker runs a later cycle while a Link it deactivated is stored, after
\* the item of that Link was deleted
C18_Witness ==
    /\ reaper.pc = "update"
    /\ \E l \in links : ~l.active /\ l.id \notin reaper.rows
                            /\ ~\E f \in files : f.id = l.file_id

\* C19: a step changes the rows of a group in files, their serials, or the
\* group's total_files and total_size only if it is a step of an upload or a
\* delete addressed to that group, so an upload or a delete in one group
\* leaves every other group as it was, in every interleaving; and the serial
\* an upload reads is one more than the largest serial among the rows of its
\* own group, 1 if it has none.
C19_GroupsIsolated ==
    [][/\ \A b \in Groups :
            ({f \in files' : f.group_id = b} # FilesOf(b) \/ groups'[b] # groups[b]) =>
                \E t \in Tasks : /\ tasks[t].pc # "idle"
                                 /\ tasks[t].gid = b
                                 /\ tasks'[t] # tasks[t]
       /\ \A t \in Tasks :
            (tasks[t].pc = "up_serial" /\ tasks'[t] # tasks[t]) =>
                tasks'[t].serial = MaxOf({f.serial : f \in FilesOf(tasks[t].gid)}) + 1]_vars

\* group 2 holds an item under serial 1 while group 1 has had an item uploaded
\* and deleted
C19_Witness ==
    /\ \A t \in Tasks : tasks[t] = Idle
    /\ \E f \in FilesOf(2) : f.serial = 1
    /\ groups[2].total_files = 1
    /\ FilesOf(1) = {} /\ everSerial[1] # {}

\* C20: deletes of the same (group, serial) that interleave remove the row
\* once and take 1 from total_files once: whenever no handler is running,
\* each group's total_files is the number of rows it has in files.
C20_DeleteOnce ==
    (\A t \in Tasks : tasks[t] = Idle) =>
        \A g \in Groups : groups[g].total_files = Cardinality(FilesOf(g))

\* C21: when the handling of an upload message that found a group selected
\* ends, be it with Saved, with a failure or with Unsupported file type, the
\* user's upload_group_id is cleared unless is_bulk_upload is set, and is
\* kept if it is set; an upload message that finds no group selected is
\* answered Select a group first and starts nothing.
C21_SelectionOneShot ==
    [][\A t \in Tasks :
        /\ \A u \in Users, kind \in Kinds, size \in Sizes :
            (tasks[t] = Idle /\ tasks'[t] = Idle /\ HandleUpload(t, u, kind, size)) =>
                IF user_data[u].upload_group_id = 0
                THEN reply'.text = "Select a group first"
                ELSE user_data'[u].upload_group_id =
                        IF user_data[u].is_bulk_upload
                        THEN user_data[u].upload_group_id ELSE 0
        /\ (tasks[t].pc \in {"up_forward", "up_serial", "up_insert", "up_group",
                             "up_stats"} /\ tasks'[t] = Idle) =>
                user_data'[tasks[t].user].upload_group_id =
                    IF user_data[tasks[t].user].is_bulk_upload
                    THEN user_data[tasks[t].user].upload_group_id ELSE 0]_vars
====
